---- MODULE Spec2Model ----
(***************************************************************************)
(* Model of streamlit_app.py: the TOP-250 movies explorer.                 *)
(*                                                                         *)
(* A text (Python str) is a sequence of one-character strings, so that     *)
(* strip, split, startswith, repr and literal parsing are computed on the  *)
(* characters.  A numeric value that may be missing (NaN) is a record      *)
(* [isna, val].                                                            *)
(***************************************************************************)
EXTENDS Integers, Sequences, FiniteSets, TLC

VARIABLES
  cell,                      \* parse_str_list: the argument
  result,                    \* parse_str_list: what the call did
  pc,                        \* position of the script run
  uploaded_file,             \* st.file_uploader's value: None or the decoded table
  df_raw,                    \* the raw table (columns present, rows)
  error_msg,                 \* the columns named by st.error
  df,                        \* the coerced table
  patience_df,
  df_directors,
  spielberg_df,
  spielberg_total_duration,
  df_cast,
  screentime,                \* sorted series, before head(10)
  most_active,
  most_gross,
  screentime_top10,
  most_active_top10,
  most_gross_top10,
  rendered,                  \* what the five tabs show
  tie_order                  \* the order the installed sort gives to equal keys

vars == << cell, result, pc, uploaded_file, df_raw, error_msg, df, patience_df,
           df_directors, spielberg_df, spielberg_total_duration, df_cast,
           screentime, most_active, most_gross, screentime_top10,
           most_active_top10, most_gross_top10, rendered, tie_order >>

-----------------------------------------------------------------------------
(* Characters and Python's str operations                                  *)

\* The printable ASCII characters in code-point order, from code 32 (code 96
\* is spelled out: no text of the model holds it).
Ascii ==
  << " ", "!", "\"", "#", "$", "%", "&", "'", "(", ")", "*", "+", ",", "-",
     ".", "/", "0", "1", "2", "3", "4", "5", "6", "7", "8", "9", ":", ";",
     "<", "=", ">", "?", "@", "A", "B", "C", "D", "E", "F", "G", "H", "I",
     "J", "K", "L", "M", "N", "O", "P", "Q", "R", "S", "T", "U", "V", "W",
     "X", "Y", "Z", "[", "\\", "]", "^", "_", "GRAVE", "a", "b", "c", "d", "e",
     "f", "g", "h", "i", "j", "k", "l", "m", "n", "o", "p", "q", "r", "s",
     "t", "u", "v", "w", "x", "y", "z", "{", "|", "}", "~" >>

AsciiChars == { Ascii[i] : i \in 1..Len(Ascii) }

\* ord(c)
Ord == [ c \in AsciiChars |-> 31 + CHOOSE i \in 1..Len(Ascii) : Ascii[i] = c ]

Digits == << "0", "1", "2", "3", "4", "5", "6", "7", "8", "9" >>

IsDigit(c) == Ord[c] >= 48 /\ Ord[c] <= 57

IsLetter(c) == \/ Ord[c] >= 65 /\ Ord[c] <= 90
               \/ Ord[c] >= 97 /\ Ord[c] <= 122
               \/ c = "_"

\* str.lower() on one character
LowerChar(c) == IF Ord[c] >= 65 /\ Ord[c] <= 90 THEN Ascii[Ord[c] + 32 - 31] ELSE c

\* str.lower()
Lower(s) == [ i \in 1..Len(s) |-> LowerChar(s[i]) ]

\* the characters str.strip() removes (the whitespace of the model's alphabet)
Whitespace == { " " }

\* the characters .strip(" '\"") removes
QuoteStrip == { " ", "'", "\"" }

RECURSIVE LStrip(_, _)
LStrip(s, chars) ==
  IF s # << >> /\ Head(s) \in chars THEN LStrip(Tail(s), chars) ELSE s

RECURSIVE RStrip(_, _)
RStrip(s, chars) ==
  IF s # << >> /\ s[Len(s)] \in chars
  THEN RStrip(SubSeq(s, 1, Len(s) - 1), chars)
  ELSE s

\* str.strip(chars)
Strip(s, chars) == RStrip(LStrip(s, chars), chars)

StartsWith(s, c) == s # << >> /\ s[1] = c

EndsWith(s, c) == s # << >> /\ s[Len(s)] = c

\* str.split(","): the pieces between the commas, empty pieces included
RECURSIVE SplitComma(_, _)
SplitComma(s, piece) ==
  IF s = << >> THEN << piece >>
  ELSE IF Head(s) = "," THEN << piece >> \o SplitComma(Tail(s), << >>)
  ELSE SplitComma(Tail(s), Append(piece, Head(s)))

\* sep.join(parts)
RECURSIVE Join(_, _)
Join(parts, sep) ==
  IF parts = << >> THEN << >>
  ELSE IF Len(parts) = 1 THEN parts[1]
  ELSE parts[1] \o sep \o Join(Tail(parts), sep)

\* str(n) of a non-negative int
RECURSIVE StrInt(_)
StrInt(n) == IF n < 10 THEN << Digits[n + 1] >> ELSE Append(StrInt(n \div 10), Digits[(n % 10) + 1])

\* int(s) of a text of digits
RECURSIVE IntOf(_)
IntOf(s) ==
  IF s = << >> THEN 0
  ELSE 10 * IntOf(SubSeq(s, 1, Len(s) - 1)) + (Ord[s[Len(s)]] - 48)

\* s < t in Python's str ordering (code points, a proper prefix first)
RECURSIVE StrLess(_, _)
StrLess(s, t) ==
  IF t = << >> THEN FALSE
  ELSE IF s = << >> THEN TRUE
  ELSE IF Ord[Head(s)] # Ord[Head(t)] THEN Ord[Head(s)] < Ord[Head(t)]
  ELSE StrLess(Tail(s), Tail(t))

\* the body of repr(s), with the quote q escaped
RECURSIVE Escape(_, _)
Escape(s, q) ==
  IF s = << >> THEN << >>
  ELSE (IF Head(s) = q \/ Head(s) = "\\" THEN << "\\", Head(s) >> ELSE << Head(s) >>)
       \o Escape(Tail(s), q)

HasChar(s, c) == \E i \in 1..Len(s) : s[i] = c

\* repr(s) of a str: double quotes only when s holds ' and no "
ReprStr(s) ==
  IF HasChar(s, "'") /\ ~HasChar(s, "\"")
  THEN << "\"" >> \o Escape(s, "\"") \o << "\"" >>
  ELSE << "'" >> \o Escape(s, "'") \o << "'" >>

-----------------------------------------------------------------------------
(* ast.literal_eval on a bracket- or paren-delimited text                  *)
(*                                                                         *)
(* The tokens of a Python expression are modelled for the texts the model  *)
(* feeds it: string literals (single, double and triple quoted, with       *)
(* backslash escapes of quotes and backslash), decimal integers, the       *)
(* names None, True and False, commas and blanks.  Outside string literals *)
(* the texts hold no nested bracket, sign, dot or string prefix, and no    *)
(* digit followed by a letter.                                             *)

Token(t, s) == [t |-> t, s |-> s]

\* the string literal whose body starts at s[j]; q is its quote
RECURSIVE ScanString(_, _, _, _, _)
ScanString(s, j, q, triple, acc) ==
  IF j > Len(s) THEN [ok |-> FALSE, end |-> j, val |-> acc]
  ELSE IF s[j] = "\\"
  THEN IF j + 1 > Len(s) THEN [ok |-> FALSE, end |-> j, val |-> acc]
       ELSE ScanString(s, j + 2, q, triple,
                       acc \o (IF s[j + 1] \in {"'", "\"", "\\"}
                               THEN << s[j + 1] >>
                               ELSE << "\\", s[j + 1] >>))
  ELSE IF s[j] = q
  THEN IF ~triple THEN [ok |-> TRUE, end |-> j, val |-> acc]
       ELSE IF j + 2 <= Len(s) /\ s[j + 1] = q /\ s[j + 2] = q
       THEN [ok |-> TRUE, end |-> j + 2, val |-> acc]
       ELSE ScanString(s, j + 1, q, triple, Append(acc, q))
  ELSE ScanString(s, j + 1, q, triple, Append(acc, s[j]))

\* the last index of the run of digits (letters too when name) starting at i
RECURSIVE RunEnd(_, _, _)
RunEnd(s, i, name) ==
  IF i + 1 <= Len(s) /\ (IsDigit(s[i + 1]) \/ (name /\ IsLetter(s[i + 1])))
  THEN RunEnd(s, i + 1, name)
  ELSE i

RECURSIVE Tokenize(_, _)
Tokenize(s, i) ==
  IF i > Len(s) THEN << >>
  ELSE LET c == s[i] IN
    IF c = " " THEN Tokenize(s, i + 1)
    ELSE IF c = "," THEN << Token("comma", << >>) >> \o Tokenize(s, i + 1)
    ELSE IF c \in {"'", "\""}
    THEN LET triple == i + 2 <= Len(s) /\ s[i + 1] = c /\ s[i + 2] = c
             r == ScanString(s, IF triple THEN i + 3 ELSE i + 1, c, triple, << >>)
         IN IF r.ok THEN << Token("str", r.val) >> \o Tokenize(s, r.end + 1)
            ELSE << Token("err", << >>) >>
    ELSE IF IsDigit(c)
    THEN LET e == RunEnd(s, i, FALSE)
         IN << Token("num", SubSeq(s, i, e)) >> \o Tokenize(s, e + 1)
    ELSE IF IsLetter(c)
    THEN LET e == RunEnd(s, i, TRUE)
         IN << Token("name", SubSeq(s, i, e)) >> \o Tokenize(s, e + 1)
    ELSE << Token("err", << >>) >>

\* adjacent string literals are one string
RECURSIVE MergeStrings(_)
MergeStrings(toks) ==
  IF Len(toks) < 2 THEN toks
  ELSE IF toks[1].t = "str" /\ toks[2].t = "str"
  THEN MergeStrings(<< Token("str", toks[1].s \o toks[2].s) >> \o SubSeq(toks, 3, Len(toks)))
  ELSE << toks[1] >> \o MergeStrings(Tail(toks))

NoneText == << "N", "o", "n", "e" >>

TrueText == << "T", "r", "u", "e" >>

FalseText == << "F", "a", "l", "s", "e" >>

\* a token that literal_eval accepts as a value
IsAtom(tok) ==
  \/ tok.t = "str"
  \/ tok.t = "num" /\ (tok.s[1] # "0" \/ \A i \in 1..Len(tok.s) : tok.s[i] = "0")
  \/ tok.t = "name" /\ tok.s \in {NoneText, TrueText, FalseText}

\* str(x) of the value of an atom
AtomStr(tok) == IF tok.t = "num" THEN StrInt(IntOf(tok.s)) ELSE tok.s

\* ast.literal_eval(text), text delimited by [ ] or ( ).  ok: no exception;
\* isseq: the value is a list or a tuple; items: str(x) of its elements.
literal_eval(text) ==
  LET toks == MergeStrings(Tokenize(SubSeq(text, 2, Len(text) - 1), 1))
      n == Len(toks)
      wellformed == \A k \in 1..n : IF k % 2 = 1 THEN IsAtom(toks[k])
                                                  ELSE toks[k].t = "comma"
      items == [ k \in 1..((n + 1) \div 2) |-> AtomStr(toks[2 * k - 1]) ]
  IN IF ~wellformed THEN [ok |-> FALSE, isseq |-> FALSE, items |-> << >>]
     ELSE IF text[1] = "(" /\ n = 1 THEN [ok |-> TRUE, isseq |-> FALSE, items |-> << >>]
     ELSE [ok |-> TRUE, isseq |-> TRUE, items |-> items]

-----------------------------------------------------------------------------
(* Cells and parse_str_list                                                *)

\* an element of a sequence-like cell: a str or None
StrElem(s) == [ek |-> "str", s |-> s]

NoneElem == [ek |-> "none", s |-> << >>]

\* a cell: kind is list, tuple, set, array, none, nan, num or text
SeqCell(kind, elems) == [kind |-> kind, elems |-> elems, num |-> 0, text |-> << >>]

NoneCell == [kind |-> "none", elems |-> << >>, num |-> 0, text |-> << >>]

NanCell == [kind |-> "nan", elems |-> << >>, num |-> 0, text |-> << >>]

NumCell(n) == [kind |-> "num", elems |-> << >>, num |-> n, text |-> << >>]

TextCell(t) == [kind |-> "text", elems |-> << >>, num |-> 0, text |-> t]

\* str(x) of an element
StrOfElem(e) == IF e.ek = "none" THEN NoneText ELSE e.s

\* repr(x) of an element
ReprOfElem(e) == IF e.ek = "none" THEN NoneText ELSE ReprStr(e.s)

Reprs(elems) == [ i \in 1..Len(elems) |-> ReprOfElem(elems[i]) ]

\* str(cell) of a cell that is not a list
StrOfCell(c) ==
  CASE c.kind = "tuple" ->
         IF Len(c.elems) = 1 THEN << "(" >> \o ReprOfElem(c.elems[1]) \o << ",", ")" >>
         ELSE << "(" >> \o Join(Reprs(c.elems), << ",", " " >>) \o << ")" >>
    [] c.kind = "set" ->
         IF c.elems = << >> THEN << "s", "e", "t", "(", ")" >>
         ELSE << "{" >> \o Join(Reprs(c.elems), << ",", " " >>) \o << "}" >>
    [] c.kind = "array" -> << "[" >> \o Join(Reprs(c.elems), << " " >>) \o << "]" >>
    [] c.kind = "num" -> StrInt(c.num)
    [] c.kind = "nan" -> << "n", "a", "n" >>
    [] OTHER -> c.text

\* `if pd.isna(cell)` raises ValueError: the truth value of an array of
\* several elements is ambiguous
IsnaRaises(c) == c.kind = "array" /\ Len(c.elems) > 1

\* `if pd.isna(cell)` is taken
IsnaTrue(c) ==
  \/ c.kind = "nan"
  \/ c.kind = "array" /\ Len(c.elems) = 1 /\ c.elems[1].ek = "none"

Returned(list) == [raised |-> FALSE, out |-> list]

Raised == [raised |-> TRUE, out |-> << >>]

\* [item.strip() for item in text.split(",") if item.strip()]
CommaSeparated(text) ==
  LET pieces == SplitComma(text, << >>)
      stripped == [ i \in 1..Len(pieces) |-> Strip(pieces[i], Whitespace) ]
  IN SelectSeq(stripped, LAMBDA p : p # << >>)


\* the element map with .strip() in place of .strip(" '\"")
StripQuotes_whitespace_only(strs) == [ i \in 1..Len(strs) |-> Strip(strs[i], Whitespace) ]

\* [str(x).strip(" '\"") for x in ...]
StripQuotes(strs) == [ i \in 1..Len(strs) |-> Strip(strs[i], QuoteStrip) ]

parse_str_list(c) ==
  IF c.kind = "list"
  THEN Returned(StripQuotes([ i \in 1..Len(c.elems) |-> StrOfElem(c.elems[i]) ]))
  ELSE IF c.kind = "none" THEN Returned(<< >>)
  ELSE IF IsnaRaises(c) THEN Raised
  ELSE IF IsnaTrue(c) THEN Returned(<< >>)
  ELSE LET text == Strip(StrOfCell(c), Whitespace) IN
    IF text = << >> THEN Returned(<< >>)
    ELSE IF \/ StartsWith(text, "[") /\ EndsWith(text, "]")
            \/ StartsWith(text, "(") /\ EndsWith(text, ")")
    THEN LET parsed == literal_eval(text) IN
           IF parsed.ok /\ parsed.isseq THEN Returned(StripQuotes(parsed.items))
           ELSE Returned(CommaSeparated(text))
    ELSE Returned(CommaSeparated(text))

-----------------------------------------------------------------------------
(* Tables and the pandas operations the script uses                        *)
(*                                                                         *)
(* A row carries its index label and the columns the derived views read:   *)
(* title, year, duration, gross, castList and directorList.  The other     *)
(* eight columns are present or absent in `columns` only.                  *)

EXPECTED_COLUMNS ==
  << "url", "title", "ratingValue", "ratingCount", "year", "description",
     "budget", "gross", "duration", "genreList", "countryList", "castList",
     "characterList", "directorList" >>

\* a float that may be NaN
NaN == [isna |-> TRUE, val |-> 0]

Num(n) == [isna |-> FALSE, val |-> n]

\* a str that may be NaN
Missing == [isna |-> TRUE, s |-> << >>]

Present(s) == [isna |-> FALSE, s |-> s]

NoTable == [columns |-> << >>, rows |-> << >>]

RECURSIVE Flatten(_)
Flatten(ss) == IF ss = << >> THEN << >> ELSE Head(ss) \o Flatten(Tail(ss))

RECURSIVE SumSeq(_)
SumSeq(ns) == IF ns = << >> THEN 0 ELSE Head(ns) + SumSeq(Tail(ns))

Reverse(s) == [ i \in 1..Len(s) |-> s[Len(s) + 1 - i] ]

\* pd.to_numeric(cell, errors="coerce") on a number, a text of digits, any
\* other text of the model (none of them numeric) or a null
to_numeric(c) ==
  IF c.kind = "num" THEN Num(c.num)
  ELSE IF c.kind = "text" /\ c.text # << >> /\ \A i \in 1..Len(c.text) : IsDigit(c.text[i])
  THEN Num(IntOf(c.text))
  ELSE NaN

\* ensure_dtypes: the numeric columns coerced, the list columns parsed.
\* raised: some parse_str_list call raised.
ensure_dtypes(rows) ==
  [ raised |-> \E i \in 1..Len(rows) : \/ parse_str_list(rows[i].castList).raised
                                        \/ parse_str_list(rows[i].directorList).raised,
    rows |-> [ i \in 1..Len(rows) |->
                 [ index |-> rows[i].index,
                   title |-> rows[i].title,
                   year |-> to_numeric(rows[i].year),
                   duration |-> to_numeric(rows[i].duration),
                   gross |-> to_numeric(rows[i].gross),
                   castList |-> parse_str_list(rows[i].castList).out,
                   directorList |-> parse_str_list(rows[i].directorList).out ] ] ]


\* explode that emits the elements of a list last to first
explode_reversed(rows, col) ==
  Flatten([ i \in 1..Len(rows) |->
              IF rows[i][col] = << >>
              THEN << [rows[i] EXCEPT ![col] = Missing] >>
              ELSE [ j \in 1..Len(rows[i][col]) |->
                       [rows[i] EXCEPT ![col] =
                          Present(rows[i][col][Len(rows[i][col]) + 1 - j])] ] ])

\* DataFrame.explode(col): one row per element of the list in col; a row
\* whose list is empty is kept, with NaN in col
explode(rows, col) ==
  Flatten([ i \in 1..Len(rows) |->
              IF rows[i][col] = << >>
              THEN << [rows[i] EXCEPT ![col] = Missing] >>
              ELSE [ j \in 1..Len(rows[i][col]) |->
                       [rows[i] EXCEPT ![col] = Present(rows[i][col][j])] ] ])

\* DataFrame.rename(columns={old: new})
rename(rows, old, new) ==
  [ i \in 1..Len(rows) |->
      [ f \in (DOMAIN rows[i] \ {old}) \cup {new} |->
          IF f = new THEN rows[i][old] ELSE rows[i][f] ] ]


\* sum that ignores min_count: an all-NaN series sums to 0
SeriesSum_no_min_count(vals, m) ==
  LET good == SelectSeq(vals, LAMBDA v : ~v.isna)
  IN Num(SumSeq([ i \in 1..Len(good) |-> good[i].val ]))

\* Series.sum(min_count=m): NaN skipped; NaN when fewer than m values remain
SeriesSum(vals, m) ==
  LET good == SelectSeq(vals, LAMBDA v : ~v.isna)
  IN IF Len(good) >= m THEN Num(SumSeq([ i \in 1..Len(good) |-> good[i].val ]))
     ELSE NaN

Column(rows, col) == [ i \in 1..Len(rows) |-> rows[i][col] ]

\* ascending insertion of x behind the entries whose key is not larger
RECURSIVE InsertAsc(_, _)
InsertAsc(x, sorted) ==
  IF sorted = << >> THEN << x >>
  ELSE IF x.k < Head(sorted).k THEN << x >> \o sorted
  ELSE << Head(sorted) >> \o InsertAsc(x, Tail(sorted))

\* ascending sort that keeps equal keys in their order
RECURSIVE StableAsc(_)
StableAsc(s) ==
  IF s = << >> THEN << >>
  ELSE InsertAsc(s[Len(s)], StableAsc(SubSeq(s, 1, Len(s) - 1)))

\* The order sort_values gives to entries with equal keys.  The script asks
\* for no sort kind, so pandas sorts with kind="quicksort", which promises
\* no order among equal keys.  Two orders are modelled: "iteration", which
\* nargsort's reverse / argsort / reverse gives when the argsort happens to
\* keep equal keys in place, and "reversed", which an ascending argsort
\* followed by [::-1] gives.
TieOrders == { "iteration", "reversed" }


\* sort_values without ascending=False
SortDescending_ascending(entries, tie) ==
  LET good == SelectSeq(entries, LAMBDA e : ~e.isna)
      bad == SelectSeq(entries, LAMBDA e : e.isna)
  IN (IF tie = "iteration" THEN StableAsc(good) ELSE Reverse(StableAsc(Reverse(good)))) \o bad

\* sort_values(ascending=False) on entries [k: a float that may be NaN, item]:
\* NaN keys last, in their original order
SortDescending(entries, tie) ==
  LET good == SelectSeq(entries, LAMBDA e : ~e.isna)
      bad == SelectSeq(entries, LAMBDA e : e.isna)
  IN (IF tie = "iteration" THEN Reverse(StableAsc(Reverse(good)))
      ELSE Reverse(StableAsc(good))) \o bad

\* sort_values(col) ascending on entries: NaN keys last
SortAscending(entries) ==
  StableAsc(SelectSeq(entries, LAMBDA e : ~e.isna))
    \o SelectSeq(entries, LAMBDA e : e.isna)

Entries(items, Key(_)) ==
  [ i \in 1..Len(items) |-> [k |-> Key(items[i]).val, isna |-> Key(items[i]).isna,
                              item |-> items[i]] ]

Items(entries) == [ i \in 1..Len(entries) |-> entries[i].item ]

\* the keys of groupby(...): sorted, as groupby sorts them
RECURSIVE InsertKey(_, _)
InsertKey(k, sorted) ==
  IF sorted = << >> THEN << k >>
  ELSE IF StrLess(k, Head(sorted)) THEN << k >> \o sorted
  ELSE << Head(sorted) >> \o InsertKey(k, Tail(sorted))

RECURSIVE SortedKeys(_)
SortedKeys(keys) ==
  IF keys = {} THEN << >>
  ELSE LET any == CHOOSE k \in keys : TRUE
       IN InsertKey(any, SortedKeys(keys \ {any}))


\* head that keeps one entry less
head_one_less(s, n) == SubSeq(s, 1, IF Len(s) < n - 1 THEN Len(s) ELSE n - 1)

\* head(n)
head(s, n) == SubSeq(s, 1, IF Len(s) < n THEN Len(s) ELSE n)

-----------------------------------------------------------------------------
(* The script                                                              *)

\* head(10) in compute_actor_tables
TopN == 10

\* the threshold of the patience view
PatienceMinutes == 220

\* the director the Spielberg view selects, as the script spells it
TargetDirector ==
  << "s", "t", "e", "v", "e", "n", " ", "s", "p", "i", "e", "l", "b", "e", "r", "g" >>


\* missing_cols that never looks for the first required column
missing_cols_skip_first(columns) ==
  SelectSeq(Tail(EXPECTED_COLUMNS), LAMBDA c : c \notin columns)

\* missing_cols = [c for c in EXPECTED_COLUMNS if c not in df_raw.columns]
missing_cols(columns) == SelectSeq(EXPECTED_COLUMNS, LAMBDA c : c \notin columns)

\* df_cast of compute_actor_tables: explode, rename, dropna, strip
cast_rows(rows) ==
  LET exploded == rename(explode(rows, "castList"), "castList", "actor")
      dropped == SelectSeq(exploded, LAMBDA r : ~r.actor.isna)
  IN [ i \in 1..Len(dropped) |->
         [dropped[i] EXCEPT !.actor = Present(Strip(dropped[i].actor.s, Whitespace))] ]

\* the group keys of df_cast.groupby("actor"), in iteration order
actor_keys(cast) ==
  SortedKeys({ cast[i].actor.s : i \in { j \in 1..Len(cast) : ~cast[j].actor.isna } })

actor_group(cast, key) == SelectSeq(cast, LAMBDA r : ~r.actor.isna /\ r.actor.s = key)

\* groupby("actor")[col].sum(min_count=1)
group_sum(cast, col) ==
  LET keys == actor_keys(cast)
  IN [ i \in 1..Len(keys) |->
         [actor |-> keys[i], value |-> SeriesSum(Column(actor_group(cast, keys[i]), col), 1)] ]


\* count() in place of nunique(): the rows with a title, not the distinct titles
group_count(cast) ==
  LET keys == actor_keys(cast)
  IN [ i \in 1..Len(keys) |->
         [actor |-> keys[i],
          value |-> Num(Len(SelectSeq(actor_group(cast, keys[i]), LAMBDA r : ~r.title.isna)))] ]

\* groupby("actor")["title"].nunique(): NaN titles are not counted
group_nunique(cast) ==
  LET keys == actor_keys(cast)
      titles(key) == { r.title : r \in { actor_group(cast, key)[i] :
                                           i \in 1..Len(actor_group(cast, key)) } }
  IN [ i \in 1..Len(keys) |->
         [actor |-> keys[i],
          value |-> Num(Cardinality({ t \in titles(keys[i]) : ~t.isna }))] ]

\* .sort_values(ascending=False).reset_index()
sort_series(series, tie) == Items(SortDescending(Entries(series, LAMBDA g : g.value), tie))

\* df[df["duration"] >= 220].sort_values("duration", ascending=False)
patience(rows, tie) ==
  Items(SortDescending(
          Entries(SelectSeq(rows, LAMBDA r : ~r.duration.isna /\ r.duration.val >= PatienceMinutes),
                  LAMBDA r : r.duration),
          tie))

\* df.explode("directorList").rename(columns={"directorList": "director"})
director_rows(rows) == rename(explode(rows, "directorList"), "directorList", "director")

\* df_directors[df_directors["director"].str.lower() == "steven spielberg"]
spielberg_rows(directors) ==
  SelectSeq(directors, LAMBDA r : ~r.director.isna /\ Lower(r.director.s) = TargetDirector)

\* spielberg_df["duration"].sum()
spielberg_sum(rows) == SeriesSum(Column(rows, "duration"), 0)

\* .assign(rank=lambda d: range(1, len(d) + 1)), when the table is not empty
ranked(top) ==
  [ i \in 1..Len(top) |-> [rank |-> i, actor |-> top[i].actor, value |-> top[i].value] ]

NotRendered ==
  [ patience |-> << >>, spielberg_warning |-> FALSE, total_shown |-> FALSE,
    total_minutes |-> 0, hours |-> 0, minutes |-> 0, spielberg |-> << >>,
    screentime_ranked |-> << >>, active_ranked |-> << >>, gross_ranked |-> << >> ]

\* the five tabs
tabs(pat, spiel, total, st, ma, mg) ==
  [ patience |-> pat,
    spielberg_warning |-> spiel = << >>,
    total_shown |-> spiel # << >> /\ ~total.isna,
    total_minutes |-> IF spiel # << >> /\ ~total.isna THEN total.val ELSE 0,
    hours |-> IF spiel # << >> /\ ~total.isna THEN total.val \div 60 ELSE 0,
    minutes |-> IF spiel # << >> /\ ~total.isna THEN total.val % 60 ELSE 0,
    spielberg |-> Items(SortAscending(Entries(spiel, LAMBDA r : r.year))),
    screentime_ranked |-> ranked(st),
    active_ranked |-> ranked(ma),
    gross_ranked |-> ranked(mg) ]

NotCalled == [raised |-> FALSE, out |-> << >>]

NoFileUploaded == [present |-> FALSE, columns |-> {}, rows |-> << >>]

\* nothing computed yet
Fresh ==
  /\ result = NotCalled
  /\ df_raw = [columns |-> {}, rows |-> << >>]
  /\ error_msg = << >>
  /\ df = NoTable
  /\ patience_df = << >>
  /\ df_directors = << >>
  /\ spielberg_df = << >>
  /\ spielberg_total_duration = NaN
  /\ df_cast = << >>
  /\ screentime = << >>
  /\ most_active = << >>
  /\ most_gross = << >>
  /\ screentime_top10 = << >>
  /\ most_active_top10 = << >>
  /\ most_gross_top10 = << >>
  /\ rendered = NotRendered

\* lines 150-152: no file yet, st.stop()
NoFile ==
  /\ pc = "start"
  /\ ~uploaded_file.present
  /\ pc' = "stopped"
  /\ UNCHANGED << cell, result, uploaded_file, df_raw, error_msg, df, patience_df,
                  df_directors, spielberg_df, spielberg_total_duration, df_cast,
                  screentime, most_active, most_gross, screentime_top10,
                  most_active_top10, most_gross_top10, rendered, tie_order >>

\* lines 157-160: the file is read into df_raw
ReadFile ==
  /\ pc = "start"
  /\ uploaded_file.present
  /\ df_raw' = [columns |-> uploaded_file.columns, rows |-> uploaded_file.rows]
  /\ pc' = "validate"
  /\ UNCHANGED << cell, result, uploaded_file, error_msg, df, patience_df,
                  df_directors, spielberg_df, spielberg_total_duration, df_cast,
                  screentime, most_active, most_gross, screentime_top10,
                  most_active_top10, most_gross_top10, rendered, tie_order >>

\* lines 163-166: a required column is missing, st.error and st.stop()
ValidateFail ==
  /\ pc = "validate"
  /\ missing_cols(df_raw.columns) # << >>
  /\ error_msg' = missing_cols(df_raw.columns)
  /\ pc' = "stopped"
  /\ UNCHANGED << cell, result, uploaded_file, df_raw, df, patience_df,
                  df_directors, spielberg_df, spielberg_total_duration, df_cast,
                  screentime, most_active, most_gross, screentime_top10,
                  most_active_top10, most_gross_top10, rendered, tie_order >>

\* lines 163-170: no column is missing; reproject and ensure_dtypes
Coerce ==
  /\ pc = "validate"
  /\ missing_cols(df_raw.columns) = << >>
  /\ LET coerced == ensure_dtypes(df_raw.rows) IN
       IF coerced.raised
       THEN /\ pc' = "raised"
            /\ df' = df
       ELSE /\ pc' = "coerced"
            /\ df' = [columns |-> EXPECTED_COLUMNS, rows |-> coerced.rows]
  /\ UNCHANGED << cell, result, uploaded_file, df_raw, error_msg, patience_df,
                  df_directors, spielberg_df, spielberg_total_duration, df_cast,
                  screentime, most_active, most_gross, screentime_top10,
                  most_active_top10, most_gross_top10, rendered, tie_order >>

\* lines 180-187: the patience and Spielberg views
Precompute ==
  /\ pc = "coerced"
  /\ patience_df' = patience(df.rows, tie_order)
  /\ df_directors' = director_rows(df.rows)
  /\ spielberg_df' = spielberg_rows(df_directors')
  /\ spielberg_total_duration' = spielberg_sum(spielberg_df')
  /\ pc' = "precomputed"
  /\ UNCHANGED << cell, result, uploaded_file, df_raw, error_msg, df, df_cast,
                  screentime, most_active, most_gross, screentime_top10,
                  most_active_top10, most_gross_top10, rendered, tie_order >>

\* line 190, compute_actor_tables(df): the three actor tables
ActorTables ==
  /\ pc = "precomputed"
  /\ df_cast' = cast_rows(df.rows)
  /\ screentime' = sort_series(group_sum(df_cast', "duration"), tie_order)
  /\ screentime_top10' = head(screentime', TopN)
  /\ most_active' = sort_series(group_nunique(df_cast'), tie_order)
  /\ most_active_top10' = head(most_active', TopN)
  /\ most_gross' = sort_series(group_sum(df_cast', "gross"), tie_order)
  /\ most_gross_top10' = head(most_gross', TopN)
  /\ pc' = "aggregated"
  /\ UNCHANGED << cell, result, uploaded_file, df_raw, error_msg, df, patience_df,
                  df_directors, spielberg_df, spielberg_total_duration, rendered,
                  tie_order >>

\* lines 195-302: the tabs
Render ==
  /\ pc = "aggregated"
  /\ rendered' = tabs(patience_df, spielberg_df, spielberg_total_duration,
                      screentime_top10, most_active_top10, most_gross_top10)
  /\ pc' = "done"
  /\ UNCHANGED << cell, result, uploaded_file, df_raw, error_msg, df, patience_df,
                  df_directors, spielberg_df, spielberg_total_duration, df_cast,
                  screentime, most_active, most_gross, screentime_top10,
                  most_active_top10, most_gross_top10, tie_order >>

Next ==
  \/ NoFile
  \/ ReadFile
  \/ ValidateFail
  \/ Coerce
  \/ Precompute
  \/ ActorTables
  \/ Render

\* a call of parse_str_list(cell)
Call ==
  /\ pc = "call"
  /\ result' = parse_str_list(cell)
  /\ pc' = IF parse_str_list(cell).raised THEN "raised" ELSE "returned"
  /\ UNCHANGED << cell, uploaded_file, df_raw, error_msg, df, patience_df,
                  df_directors, spielberg_df, spielberg_total_duration, df_cast,
                  screentime, most_active, most_gross, screentime_top10,
                  most_active_top10, most_gross_top10, rendered, tie_order >>

NextParse == Call

-----------------------------------------------------------------------------
(* Inputs                                                                  *)

MaxRows == 2

MaxMissing == 2

MaxElems == 2

MaxElemLen == 1

MaxTextLen == 4

\* the texts of at most n characters of chars
RECURSIVE Strings(_, _)
Strings(chars, n) ==
  IF n = 0 THEN { << >> }
  ELSE Strings(chars, n - 1)
         \cup { Append(s, c) : s \in { x \in Strings(chars, n - 1) : Len(x) = n - 1 },
                               c \in chars }

\* the sequences of at most n members of S
SeqsUpTo(S, n) == UNION { [1..k -> S] : k \in 0..n }

ElemChars == { "A", "'", "\"" }

Elems == { StrElem(s) : s \in Strings(ElemChars, MaxElemLen) } \cup { NoneElem }

\* longer elements: blanks around and inside, both quotes in one element
LongerElems ==
  { << StrElem(<< " ", "A", " ", "A", " " >>), StrElem(<< "'", " " >>) >>,
    << StrElem(<< " " >>) >>,
    << StrElem(<< "'", "A" >>), StrElem(<< "\"", "'" >>) >>,
    << StrElem(<< "A", "'", "A", "\"" >>) >>,
    << StrElem(<< " ", "\"", "A" >>), NoneElem, StrElem(<< "A", " ", "'" >>) >> }

\* list, tuple and set cells, and the arrays that have a truth value or raise
\* (bool() of an empty array depends on the numpy release)
SeqCells ==
  { SeqCell(k, e) : k \in {"list", "tuple", "set"},
                    e \in SeqsUpTo(Elems, MaxElems) \cup LongerElems }
    \cup { SeqCell("array", e) : e \in (SeqsUpTo(Elems, MaxElems) \cup LongerElems) \ { << >> } }

TextChars == { "A", " ", ",", "'", "\"", "1" }

Wraps ==
  { << << >>, << >> >>, << << "[" >>, << "]" >> >>, << << "(" >>, << ")" >> >>,
    << << "[" >>, << ")" >> >>, << << " ", "[" >>, << "]", " " >> >>,
    << << "{" >>, << "}" >> >> }

Texts == { w[1] \o t \o w[2] : w \in Wraps, t \in Strings(TextChars, MaxTextLen) }

QuotedAB == << "[", "'", "A", "'", ",", " ", "'", "B", "'", "]" >>

CommaABC == << "A", ",", " ", "B", ",", " ", "C" >>

TupleNone12 == << "(", "N", "o", "n", "e", ",", " ", "1", "2", ")" >>

LeadingZero == << "[", "0", "1", "]" >>

Zeros == << "[", "0", ",", " ", "0", "0", "]" >>

NotANumber == << "N", "/", "A" >>

ParseInputs ==
  SeqCells
    \cup { TextCell(t) : t \in Texts \cup { QuotedAB, CommaABC, TupleNone12, LeadingZero, Zeros,
                                     NotANumber } }
    \cup { NoneCell, NanCell, NumCell(0), NumCell(7), NumCell(142) }

InitParse ==
  /\ pc = "call"
  /\ cell \in ParseInputs
  /\ uploaded_file = NoFileUploaded
  /\ tie_order = "iteration"
  /\ Fresh

SpecParse == InitParse /\ [][NextParse]_vars

\* --- uploaded tables ---

Jaws == << "J", "a", "w", "s" >>

Heat == << "H", "e", "a", "t" >>

RawRow(title, year, duration, gross, cast, director) ==
  [ title |-> title, year |-> year, duration |-> duration, gross |-> gross,
    castList |-> cast, directorList |-> director ]

\* the tables of at most MaxRows rows of pool, with a RangeIndex
Tables(pool) ==
  { [ i \in 1..Len(t) |->
        [ index |-> i - 1, title |-> t[i].title, year |-> t[i].year,
          duration |-> t[i].duration, gross |-> t[i].gross,
          castList |-> t[i].castList, directorList |-> t[i].directorList ] ]
    : t \in SeqsUpTo(pool, MaxRows) }

File(columns, rows) == [present |-> TRUE, columns |-> columns, rows |-> rows]

ExpectedSet == { EXPECTED_COLUMNS[i] : i \in 1..Len(EXPECTED_COLUMNS) }

\* castList cells: "['A', 'B']"; [" B", "B", ""]; null; eleven names
CastQuoted == TextCell(QuotedAB)

CastRepeated == SeqCell("list", << StrElem(<< " ", "B" >>), StrElem(<< "B" >>), StrElem(<< >>) >>)

CastLong ==
  TextCell(<< "C", ",", "D", ",", "E", ",", "F", ",", "G", ",", "H", ",", "I", ",",
              "J", ",", "K", ",", "L", ",", "M" >>)

CastCells == { CastQuoted, CastRepeated, NoneCell, CastLong }

\* directorList cells: "['Steven Spielberg']"; ["STEVEN SPIELBERG", "X"];
\* an empty list; "X"
DirectorQuoted ==
  TextCell(<< "[", "'", "S", "t", "e", "v", "e", "n", " ", "S", "p", "i", "e", "l",
              "b", "e", "r", "g", "'", "]" >>)

DirectorPair ==
  SeqCell("list", << StrElem(<< "S", "T", "E", "V", "E", "N", " ", "S", "P", "I", "E",
                                "L", "B", "E", "R", "G" >>),
                     StrElem(<< "X" >>) >>)

DirectorNone == SeqCell("list", << >>)

DirectorOther == TextCell(<< "X" >>)

DirectorCells == { DirectorQuoted, DirectorPair, DirectorNone, DirectorOther }

NA == TextCell(NotANumber)

\* rows that vary both lists
ExplodePool ==
  { RawRow(Present(Jaws), NumCell(1975), NumCell(124), NumCell(1000), c, d)
      : c \in CastCells, d \in DirectorCells }

\* rows that vary the actor aggregates; two of them have no title
ActorPool ==
  { RawRow(t, NumCell(1975), dg[1], dg[2], c, DirectorQuoted)
      : t \in { Present(Jaws), Present(Heat) },
        dg \in { << NA, NumCell(1000) >>, << NumCell(242), NanCell >>,
                 << TextCell(<< "1", "0", "0" >>), NumCell(1000) >> },
        c \in CastCells }
    \cup { RawRow(Missing, NumCell(1975), NumCell(242), NanCell, c, DirectorQuoted)
             : c \in { CastQuoted, CastRepeated } }

\* rows that vary the director and the duration
DirectorPool ==
  { RawRow(Present(Jaws), y, dur, NumCell(1000), CastQuoted, d)
      : y \in { NumCell(1975), NanCell },
        dur \in { NA, NumCell(242), TextCell(<< "1", "0", "0" >>) },
        d \in DirectorCells }

\* the column sets that miss at most MaxMissing required columns, with and
\* without a column the script does not know
ColumnSets ==
  { (ExpectedSet \ m) \cup x : m \in { mm \in SUBSET ExpectedSet : Cardinality(mm) <= MaxMissing },
                               x \in { {}, { "extra" } } }

\* complete files over pool, and files with missing columns over short tables
Uploads(pool) ==
  { NoFileUploaded }
    \cup { File(cols, rows) : cols \in { c \in ColumnSets : ExpectedSet \subseteq c },
                              rows \in Tables(pool) }
    \cup { File(cols, rows) : cols \in { c \in ColumnSets : ~(ExpectedSet \subseteq c) },
                              rows \in { r \in Tables(pool) : Len(r) <= 1 } }

\* complete files over pool, and short files that miss one required column
CompleteUploads(pool) ==
  { NoFileUploaded }
    \cup { File(ExpectedSet, rows) : rows \in Tables(pool) }
    \cup { File(ExpectedSet \ {c}, rows) : c \in ExpectedSet,
                                           rows \in { r \in Tables(pool) : Len(r) <= 1 } }

InitWith(uploads) ==
  /\ pc = "start"
  /\ cell = NoneCell
  /\ uploaded_file \in uploads
  /\ tie_order \in TieOrders
  /\ Fresh

Init == InitWith(Uploads(ExplodePool))

Spec == Init /\ [][Next]_vars

InitActors == InitWith(CompleteUploads(ActorPool))

SpecActors == InitActors /\ [][Next]_vars

InitDirectors == InitWith(CompleteUploads(DirectorPool))

SpecDirectors == InitDirectors /\ [][Next]_vars

-----------------------------------------------------------------------------
(* Properties                                                              *)

\* C1: once a file is read and validated, if a required column is absent
\* the run has stopped, st.error names exactly the absent required columns,
\* and no coerced table, view, ranking or tab exists; if none is absent the
\* run went on to the coerced table with the 14 columns in canonical order.
C1_FailFastValidation ==
  (uploaded_file.present /\ pc \notin {"start", "validate"}) =>
    LET absent == ExpectedSet \ df_raw.columns IN
      IF absent # {}
      THEN /\ pc = "stopped"
           /\ { error_msg[i] : i \in 1..Len(error_msg) } = absent
           /\ Len(error_msg) = Cardinality(absent)
           /\ df = NoTable
           /\ patience_df = << >> /\ df_directors = << >> /\ spielberg_df = << >>
           /\ df_cast = << >>
           /\ screentime = << >> /\ most_active = << >> /\ most_gross = << >>
           /\ screentime_top10 = << >> /\ most_active_top10 = << >>
           /\ most_gross_top10 = << >>
           /\ rendered = NotRendered
      ELSE /\ error_msg = << >>
           /\ pc \in {"coerced", "precomputed", "aggregated", "done"}
           /\ df.columns = EXPECTED_COLUMNS
           /\ Len(df.rows) = Len(df_raw.rows)

\* a file with rows that lacks two required columns was stopped
C1_Witness ==
  /\ pc = "stopped"
  /\ Len(error_msg) = 2
  /\ Len(df_raw.rows) = 1
  /\ "extra" \in df_raw.columns

\* C2: parse_str_list never raises, whatever the cell.
C2_NeverRaises == pc # "raised" /\ ~result.raised

C4_ExplodeBothViews ==
  (pc \in {"aggregated", "done"}) =>
    \A i \in 1..Len(df.rows) :
      LET r == df.rows[i]
          a == SelectSeq(df_cast, LAMBDA x : x.index = r.index)
          d == SelectSeq(df_directors, LAMBDA x : x.index = r.index)
      IN /\ Len(a) = Len(r.castList)
         /\ \A j \in 1..Len(a) :
              /\ a[j].actor = Present(r.castList[j])
              /\ a[j].title = r.title /\ a[j].year = r.year
              /\ a[j].duration = r.duration /\ a[j].gross = r.gross
              /\ a[j].directorList = r.directorList
         /\ Len(d) = Len(r.directorList)
         /\ \A j \in 1..Len(d) :
              /\ d[j].director = Present(r.directorList[j])
              /\ d[j].title = r.title /\ d[j].year = r.year
              /\ d[j].duration = r.duration /\ d[j].gross = r.gross
              /\ d[j].castList = r.castList

\* C4, amended: the actor view is as claimed.  In the director view a source
\* row with N >= 1 directors has N rows as claimed, and a source row with no
\* director has one row, with a missing director and the other fields of the
\* source row, which the Spielberg selection does not select.
C4_Explode ==
  (pc \in {"aggregated", "done"}) =>
    \A i \in 1..Len(df.rows) :
      LET r == df.rows[i]
          a == SelectSeq(df_cast, LAMBDA x : x.index = r.index)
          d == SelectSeq(df_directors, LAMBDA x : x.index = r.index)
      IN /\ Len(a) = Len(r.castList)
         /\ \A j \in 1..Len(a) :
              /\ a[j].actor = Present(r.castList[j])
              /\ a[j].title = r.title /\ a[j].year = r.year
              /\ a[j].duration = r.duration /\ a[j].gross = r.gross
              /\ a[j].directorList = r.directorList
         /\ Len(d) = (IF r.directorList = << >> THEN 1 ELSE Len(r.directorList))
         /\ \A j \in 1..Len(d) :
              /\ d[j].director = (IF r.directorList = << >> THEN Missing
                                  ELSE Present(r.directorList[j]))
              /\ d[j].title = r.title /\ d[j].year = r.year
              /\ d[j].duration = r.duration /\ d[j].gross = r.gross
              /\ d[j].castList = r.castList
         /\ r.directorList = << >> =>
              \A k \in 1..Len(spielberg_df) : spielberg_df[k].index # r.index

\* both views were built from a row with no cast and a director and a row
\* with three cast members and no director
C4_Witness ==
  /\ pc = "done"
  /\ Len(df.rows) = 2
  /\ df.rows[1].castList = << >> /\ Len(df.rows[1].directorList) = 2
  /\ Len(df.rows[2].castList) = 3 /\ df.rows[2].directorList = << >>
  /\ Len(df_cast) = 3
  /\ Len(df_directors) = 3

\* C5: in the screentime and gross series the total of an actor is the sum of
\* the non-missing duration (gross) values of the actor's exploded rows, and
\* it is missing exactly when every one of those values is missing.
C5_SumAllNullPassthrough ==
  (pc \in {"aggregated", "done"}) =>
    LET RECURSIVE Total(_, _)
        Total(rows, col) ==
          IF rows = {} THEN 0
          ELSE LET i == CHOOSE x \in rows : TRUE
               IN df_cast[i][col].val + Total(rows \ {i}, col)
        Holds(series, col) ==
          \A n \in 1..Len(series) :
            LET defined == { i \in 1..Len(df_cast) :
                               /\ df_cast[i].actor.s = series[n].actor
                               /\ ~df_cast[i][col].isna }
            IN /\ series[n].value.isna <=> defined = {}
               /\ ~series[n].value.isna => series[n].value.val = Total(defined, col)
    IN /\ Holds(screentime, "duration")
       /\ Holds(most_gross, "gross")
       /\ Holds(screentime_top10, "duration")
       /\ Holds(most_gross_top10, "gross")

\* an actor of two movies, one with a missing and one with a known duration,
\* next to an actor whose screentime is missing
C5_Witness ==
  /\ pc = "done"
  /\ \E n \in 1..Len(screentime) :
       /\ ~screentime[n].value.isna
       /\ screentime[n].value.val = 242
       /\ \E i, j \in 1..Len(df_cast) :
            /\ df_cast[i].actor.s = screentime[n].actor
            /\ df_cast[j].actor.s = screentime[n].actor
            /\ df_cast[i].duration.isna
            /\ ~df_cast[j].duration.isna
  /\ \E n \in 1..Len(screentime) : screentime[n].value.isna
  /\ \E n \in 1..Len(most_gross) : most_gross[n].value.isna
  /\ \E n \in 1..Len(most_gross) : ~most_gross[n].value.isna /\ most_gross[n].value.val = 2000

\* C6: when the Spielberg view selects rows, its total duration is missing
\* if every selected row has a missing duration, and otherwise the sum of
\* the non-missing durations of the selected rows.
C6_SpielbergNullPassthrough ==
  (pc \in {"precomputed", "aggregated", "done"}) =>
    LET selected == { i \in 1..Len(df_directors) :
                        /\ ~df_directors[i].director.isna
                        /\ Lower(df_directors[i].director.s) = TargetDirector }
        defined == { i \in selected : ~df_directors[i].duration.isna }
        RECURSIVE Total(_)
        Total(rows) ==
          IF rows = {} THEN 0
          ELSE LET i == CHOOSE x \in rows : TRUE
               IN df_directors[i].duration.val + Total(rows \ {i})
    IN selected # {} =>
         /\ defined = {} => spielberg_total_duration.isna
         /\ defined # {} => /\ ~spielberg_total_duration.isna
                            /\ spielberg_total_duration.val = Total(defined)

\* C7: no group of the three actor rankings has an empty or null actor key.
C7_NoEmptyActorKey ==
  (pc \in {"aggregated", "done"}) =>
    /\ \A n \in 1..Len(screentime) : screentime[n].actor # << >>
    /\ \A n \in 1..Len(most_active) : most_active[n].actor # << >>
    /\ \A n \in 1..Len(most_gross) : most_gross[n].actor # << >>

\* C8: in the activity series an actor's movie_count is the number of
\* distinct titles among the actor's exploded rows (a missing title is no
\* title), not the number of rows.
C8_DistinctTitles ==
  (pc \in {"aggregated", "done"}) =>
    /\ \A n \in 1..Len(most_active) :
         /\ ~most_active[n].value.isna
         /\ most_active[n].value.val =
              Cardinality({ df_cast[i].title.s :
                              i \in { j \in 1..Len(df_cast) :
                                        /\ df_cast[j].actor.s = most_active[n].actor
                                        /\ ~df_cast[j].title.isna } })
    /\ \A n \in 1..Len(most_active_top10) :
         \E m \in 1..Len(most_active) : most_active[m] = most_active_top10[n]

\* an actor listed twice in the cast of one movie, and in a second movie,
\* has movie_count 2 over four rows
C8_Witness ==
  /\ pc = "done"
  /\ \E n \in 1..Len(most_active) :
       /\ most_active[n].actor = << "B" >>
       /\ most_active[n].value.val = 2
       /\ Cardinality({ i \in 1..Len(df_cast) : df_cast[i].actor.s = << "B" >> }) = 4
       /\ \E i, j \in 1..Len(df_cast) :
            /\ i # j
            /\ df_cast[i].index = df_cast[j].index
            /\ df_cast[i].actor.s = << "B" >> /\ df_cast[j].actor.s = << "B" >>

\* C9: each ranking has min(10, number of actor groups) entries, they are
\* groups with the largest metric values, ordered by metric non-increasing
\* with missing totals after the defined ones, and the entry at position i
\* has rank i.
C9_TopTen ==
  (pc \in {"aggregated", "done"}) =>
    LET groups == { df_cast[i].actor.s : i \in 1..Len(df_cast) }
        Larger(e, f) == ~e.value.isna /\ (f.value.isna \/ e.value.val > f.value.val)
        Holds(series, top, shown) ==
          /\ Len(series) = Cardinality(groups)
          /\ { series[n].actor : n \in 1..Len(series) } = groups
          /\ Len(top) = (IF Cardinality(groups) < 10 THEN Cardinality(groups) ELSE 10)
          /\ \A n \in 1..Len(top) : \E k \in 1..Len(series) : series[k] = top[n]
          /\ \A m, n \in 1..Len(top) : m # n => top[m].actor # top[n].actor
          /\ \A k \in 1..Len(series) :
               (\A n \in 1..Len(top) : top[n].actor # series[k].actor) =>
                  \A n \in 1..Len(top) : ~Larger(series[k], top[n])
          /\ \A m, n \in 1..Len(top) : m < n => ~Larger(top[n], top[m])
          /\ pc = "done" =>
               /\ Len(shown) = Len(top)
               /\ \A n \in 1..Len(top) :
                    shown[n] = [rank |-> n, actor |-> top[n].actor, value |-> top[n].value]
    IN /\ Holds(screentime, screentime_top10, rendered.screentime_ranked)
       /\ Holds(most_active, most_active_top10, rendered.active_ranked)
       /\ Holds(most_gross, most_gross_top10, rendered.gross_ranked)

\* more than ten actor groups: ten are ranked, the largest first, and the
\* groups with a missing gross are left out
C9_Witness ==
  /\ pc = "done"
  /\ Len(screentime) = 13
  /\ Len(rendered.screentime_ranked) = 10
  /\ rendered.screentime_ranked[10].rank = 10
  /\ rendered.screentime_ranked[1].value = Num(242)
  /\ rendered.screentime_ranked[10].value = Num(100)
  /\ Len(rendered.gross_ranked) = 10
  /\ rendered.gross_ranked[10].value = Num(1000)
  /\ most_gross[13].value.isna

\* C10, as claimed: the sort is stable; two groups with equal aggregate
\* values appear in their group-iteration order (the order of their keys).
C10_StableSort ==
  (pc \in {"aggregated", "done"}) =>
    LET Stable(series) ==
          \A p, q \in 1..Len(series) :
            (p < q /\ series[p].value = series[q].value) =>
               StrLess(series[p].actor, series[q].actor)
    IN Stable(screentime) /\ Stable(most_active) /\ Stable(most_gross)

\* C10, amended: the sort orders the groups by aggregate value only, largest
\* first and missing last, and keeps every group; the groups whose aggregate
\* is missing keep their group-iteration order, and the order of two groups
\* with equal defined aggregates is not determined.
C10_SortedByValue ==
  (pc \in {"aggregated", "done"}) =>
    LET groups == { df_cast[i].actor.s : i \in 1..Len(df_cast) }
        Sorted(series) ==
          /\ Len(series) = Cardinality(groups)
          /\ { series[n].actor : n \in 1..Len(series) } = groups
          /\ \A p, q \in 1..Len(series) :
               p < q =>
                 /\ series[p].value.isna => series[q].value.isna
                 /\ (~series[p].value.isna /\ ~series[q].value.isna) =>
                       series[p].value.val >= series[q].value.val
                 /\ (series[p].value.isna /\ series[q].value.isna) =>
                       StrLess(series[p].actor, series[q].actor)
    IN Sorted(screentime) /\ Sorted(most_active) /\ Sorted(most_gross)

\* two groups with equal screentime rank against their key order, above
\* eleven groups with missing screentime in key order
C10_Witness ==
  /\ pc = "done"
  /\ tie_order = "reversed"
  /\ Len(screentime) = 13
  /\ screentime[1] = [actor |-> << "B" >>, value |-> Num(242)]
  /\ screentime[2] = [actor |-> << "A" >>, value |-> Num(242)]
  /\ screentime[3].value.isna /\ screentime[13].value.isna
  /\ StrLess(screentime[3].actor, screentime[13].actor)

====
